---- MODULE Spec2Model ----
(***************************************************************************)
(* Model of the backend of github-profile-analyzer: the handler of         *)
(* GET /api/analyze/:username (src/unnamed/part_000) with its helpers      *)
(* calculateHireabilityScore, filterLowValueRepos and generateAIReview.    *)
(* One action is one turn of the Node.js event loop: the code of the       *)
(* handler (or of one language callback) between two awaits.               *)
(* src/unnamed/part_001 is the same server with another Authorization      *)
(* scheme; its handler and helpers do not differ in what is modelled.      *)
(***************************************************************************)
EXTENDS Integers, Sequences, FiniteSets, TLC

(***************************************************************************)
(* Bounds of the model.                                                    *)
(***************************************************************************)
\* longest repository list the upstream answers with
MaxRepos == 2
\* number of request slots of the server
NumRequests == 2
\* largest follower count, repository count, language count given to the
\* score calculator in SpecScore
MaxFollowers == 310
MaxRepoCount == 80
MaxLangCount == 6

Requests == 1..NumRequests

(***************************************************************************)
(* JavaScript values.  A value is a record with a type tag; strings that   *)
(* the code takes apart are sequences of one-character strings.            *)
(***************************************************************************)
Num(i) == [t |-> "num", n |-> i, s |-> <<>>]
Str(cs) == [t |-> "str", n |-> 0, s |-> cs]
NaN == [t |-> "nan", n |-> 0, s |-> <<>>]
Undefined == [t |-> "undef", n |-> 0, s |-> <<>>]
Null == [t |-> "null", n |-> 0, s |-> <<>>]

\* ToBoolean: what `if (v)`, `!v`, `a && b`, `a || b` test
Truthy(v) ==
    CASE v.t = "num" -> v.n # 0
      [] v.t = "str" -> v.s # <<>>
      [] OTHER -> FALSE

\* a || b
JsOr(a, b) == IF Truthy(a) THEN a ELSE b

\* ToNumber of the values of the model (no numeric string occurs in it)
ToNumber(v) ==
    CASE v.t = "num" -> v
      [] v.t = "null" -> Num(0)
      [] v.t = "str" /\ v.s = <<>> -> Num(0)
      [] OTHER -> NaN

Digit(d) == <<"0", "1", "2", "3", "4", "5", "6", "7", "8", "9">>[d + 1]

RECURSIVE NatToChars(_)
NatToChars(i) == IF i < 10 THEN <<Digit(i)>> ELSE NatToChars(i \div 10) \o <<Digit(i % 10)>>

\* ToString, as a sequence of characters
ToChars(v) ==
    CASE v.t = "num" -> IF v.n < 0 THEN <<"-">> \o NatToChars(-v.n) ELSE NatToChars(v.n)
      [] v.t = "str" -> v.s
      [] v.t = "nan" -> <<"N", "a", "N">>
      [] v.t = "null" -> <<"n", "u", "l", "l">>
      [] OTHER -> <<"u", "n", "d", "e", "f", "i", "n", "e", "d">>

\* a + b: string concatenation when either side is a string, else numeric
JsAdd(a, b) ==
    IF a.t = "str" \/ b.t = "str" THEN Str(ToChars(a) \o ToChars(b))
    ELSE IF ToNumber(a).t = "nan" \/ ToNumber(b).t = "nan" THEN NaN
    ELSE Num(ToNumber(a).n + ToNumber(b).n)

\* Math.floor(a / d) for an integer divisor d > 0
FloorDiv(a, d) == IF ToNumber(a).t = "nan" THEN NaN ELSE Num(ToNumber(a).n \div d)

\* a * m for an integer m
Times(a, m) == IF a.t = "nan" THEN NaN ELSE Num(a.n * m)

MathMin(a, b) ==
    IF a.t = "nan" \/ b.t = "nan" THEN NaN ELSE Num(IF a.n <= b.n THEN a.n ELSE b.n)

MathMax(a, b) ==
    IF a.t = "nan" \/ b.t = "nan" THEN NaN ELSE Num(IF a.n >= b.n THEN a.n ELSE b.n)

UpperCase == <<"A", "B", "C", "D", "E", "F", "G", "H", "I", "J", "K", "L", "M",
               "N", "O", "P", "Q", "R", "S", "T", "U", "V", "W", "X", "Y", "Z">>
LowerCase == <<"a", "b", "c", "d", "e", "f", "g", "h", "i", "j", "k", "l", "m",
               "n", "o", "p", "q", "r", "s", "t", "u", "v", "w", "x", "y", "z">>

LowerChar(c) ==
    IF \E i \in 1..26 : UpperCase[i] = c
    THEN LowerCase[CHOOSE i \in 1..26 : UpperCase[i] = c]
    ELSE c

\* String.prototype.toLowerCase
toLowerCase(cs) == [i \in 1..Len(cs) |-> LowerChar(cs[i])]

\* String.prototype.includes
includes(cs, needle) ==
    \E i \in 1..(Len(cs) - Len(needle) + 1) : SubSeq(cs, i, i + Len(needle) - 1) = needle

\* Array.prototype.join over strings
RECURSIVE join(_, _)
join(strs, sep) ==
    IF strs = <<>> THEN <<>>
    ELSE IF Len(strs) = 1 THEN strs[1]
    ELSE strs[1] \o sep \o join(Tail(strs), sep)

\* String.prototype.split(sep)[0] for a one-character separator
splitFirst(cs, sep) ==
    IF \E i \in 1..Len(cs) : cs[i] = sep
    THEN SubSeq(cs, 1, (CHOOSE i \in 1..Len(cs) : cs[i] = sep /\ \A j \in 1..(i - 1) : cs[j] # sep) - 1)
    ELSE cs

(***************************************************************************)
(* Objects whose keys are in insertion order: a sequence of entries        *)
(* [key, val] with distinct keys (Object.keys, Object.entries).            *)
(***************************************************************************)
ObjectKeys(obj) == [i \in 1..Len(obj) |-> obj[i].key]

HasKey(obj, k) == \E i \in 1..Len(obj) : obj[i].key = k

\* obj[k]
Get(obj, k) ==
    IF HasKey(obj, k) THEN obj[CHOOSE i \in 1..Len(obj) : obj[i].key = k].val ELSE Undefined

\* obj[k] = v
Put(obj, k, v) ==
    IF HasKey(obj, k)
    THEN [i \in 1..Len(obj) |-> IF obj[i].key = k THEN [key |-> k, val |-> v] ELSE obj[i]]
    ELSE Append(obj, [key |-> k, val |-> v])

(***************************************************************************)
(* The pure functions of the backend.                                      *)
(***************************************************************************)
minLinesOfCode == 100

Template == <<"t", "e", "m", "p", "l", "a", "t", "e">>

\* KeepRepo with the description compared in the case it is written in
KeepRepo_CaseSensitive(repo) ==
    IF repo.fork THEN FALSE
    ELSE IF repo.size < minLinesOfCode THEN FALSE
    ELSE IF Truthy(repo.description) /\ includes(repo.description.s, Template) THEN FALSE
    ELSE TRUE

\* the callback of repos.filter: TRUE keeps the repository
KeepRepo(repo) ==
    IF repo.fork THEN FALSE
    ELSE IF repo.size < minLinesOfCode THEN FALSE
    ELSE IF Truthy(repo.description) /\ includes(toLowerCase(repo.description.s), Template)
         THEN FALSE
    ELSE TRUE

filterLowValueRepos(repos) == SelectSeq(repos, KeepRepo)

\* calculateHireabilityScore with % written for / in the repository term
calculateHireabilityScore_Modulo(profile, repos, langTotals) ==
    LET publicReposCount == Len(repos)
        byFollowers == JsAdd(Num(0), MathMin(Num(30), FloorDiv(profile.followers, 10)))
        byRepos == JsAdd(byFollowers, MathMin(Num(30), Num((publicReposCount % 5) * 2)))
        languageCount == Len(ObjectKeys(langTotals))
        score == JsAdd(byRepos,
                       MathMin(Num(40), MathMax(Num(0), Num((languageCount - 1) * 10))))
    IN  MathMin(Num(100), MathMax(Num(0), score))

\* calculateHireabilityScore with the repository term as floor(count * 2 / 5)
calculateHireabilityScore_LinearVolume(profile, repos, langTotals) ==
    LET publicReposCount == Len(repos)
        byFollowers == JsAdd(Num(0), MathMin(Num(30), FloorDiv(profile.followers, 10)))
        byRepos == JsAdd(byFollowers,
                         MathMin(Num(30), FloorDiv(Times(Num(publicReposCount), 2), 5)))
        languageCount == Len(ObjectKeys(langTotals))
        score == JsAdd(byRepos,
                       MathMin(Num(40), MathMax(Num(0), Num((languageCount - 1) * 10))))
    IN  MathMin(Num(100), MathMax(Num(0), score))

calculateHireabilityScore(profile, repos, langTotals) ==
    LET publicReposCount == Len(repos)
        byFollowers == JsAdd(Num(0), MathMin(Num(30), FloorDiv(profile.followers, 10)))
        byRepos == JsAdd(byFollowers,
                         MathMin(Num(30), Times(FloorDiv(Num(publicReposCount), 5), 2)))
        languageCount == Len(ObjectKeys(langTotals))
        score == JsAdd(byRepos,
                       MathMin(Num(40), MathMax(Num(0), Num((languageCount - 1) * 10))))
    IN  MathMin(Num(100), MathMax(Num(0), score))

NoMainLanguages ==
    <<"N", "o", " ", "m", "a", "i", "n", " ", "l", "a", "n", "g", "u", "a", "g", "e", "s",
      " ", "d", "e", "t", "e", "c", "t", "e", "d", ".">>
CoreTechnologies ==
    <<"c", "o", "r", "e", " ", "t", "e", "c", "h", "n", "o", "l", "o", "g", "i", "e", "s">>

\* generateAIReview naming the language with the most bytes
generateAIReview_TopLanguage(profile, langTotals, hireabilityScore) ==
    LET top == IF langTotals = <<>> THEN NoMainLanguages
               ELSE langTotals[CHOOSE i \in 1..Len(langTotals) :
                                \A j \in 1..Len(langTotals) :
                                    langTotals[j].val.n <= langTotals[i].val.n].key
    IN  [focus |-> top,
         score |-> ToChars(hireabilityScore),
         public_repos |-> ToChars(profile.public_repos),
         expertise |-> top]

\* The review is the fixed template text of the source with four holes; the
\* model keeps the text that fills each hole.
generateAIReview(profile, langTotals, hireabilityScore) ==
    LET languageList ==
            JsOr(Str(join(ObjectKeys(langTotals), <<",", " ">>)), Str(NoMainLanguages)).s
    IN  [focus |-> JsOr(Str(splitFirst(languageList, ",")), Str(CoreTechnologies)).s,
         score |-> ToChars(hireabilityScore),
         public_repos |-> ToChars(profile.public_repos),
         expertise |-> splitFirst(languageList, ",")]

\* ShouldFilter as a truthiness test of the parameter
ShouldFilter_Truthy(filter) == Truthy(filter)

\* req.query.filter === 'true'
ShouldFilter(filter) == filter = Str(<<"t", "r", "u", "e">>)

\* TokenMissing as GITHUB_TOKEN === undefined
TokenMissing_UndefinedOnly(token) == token = Undefined

\* !GITHUB_TOKEN
TokenMissing(token) == ~Truthy(token)

\* EffectiveRepos with the flag inverted
EffectiveRepos_Inverted(fetchedRepos, shouldFilter) ==
    LET finalRepos == IF fetchedRepos.isArray THEN fetchedRepos.items ELSE <<>>
    IN  IF ~shouldFilter THEN filterLowValueRepos(finalRepos) ELSE finalRepos

\* let finalRepos = Array.isArray(fetchedRepos) ? fetchedRepos : []; then the filter
EffectiveRepos(fetchedRepos, shouldFilter) ==
    LET finalRepos == IF fetchedRepos.isArray THEN fetchedRepos.items ELSE <<>>
    IN  IF shouldFilter THEN filterLowValueRepos(finalRepos) ELSE finalRepos

\* AddBytes with the entry assigned instead of added
AddBytes_Overwrite(langTotals, entry) == Put(langTotals, entry.key, entry.val)

\* the body of the loop over Object.entries(langs || {}): one entry added to the totals
AddBytes(langTotals, entry) ==
    Put(langTotals, entry.key, JsAdd(JsOr(Get(langTotals, entry.key), Num(0)), entry.val))

RECURSIVE MergeLanguages(_, _)
MergeLanguages(langTotals, entries) ==
    IF entries = <<>> THEN langTotals
    ELSE MergeLanguages(AddBytes(langTotals, Head(entries)), Tail(entries))

\* JSON.stringify of a number: NaN is written as null
JsonNumber(v) == IF v.t = "nan" THEN Null ELSE v

\* the object given to res.json
AnalysisResult(profile, finalRepos, langTotals, hireabilityScore, aiReview) ==
    [profile |-> profile,
     repositories |-> finalRepos,
     languagesByBytes |-> langTotals,
     hireabilityScore |-> JsonNumber(hireabilityScore),
     aiReview |-> aiReview]

(***************************************************************************)
(* The upstream API: what the three endpoints can answer.  A fetch either  *)
(* rejects (ok = FALSE, a network error) or resolves with a response of a  *)
(* status and a body; json = FALSE is a body that response.json() cannot   *)
(* parse.                                                                  *)
(***************************************************************************)
NotFoundText == <<"N", "o", "t", " ", "F", "o", "u", "n", "d">>
ForbiddenText == <<"F", "o", "r", "b", "i", "d", "d", "e", "n">>
DocUrlText == <<"d", "o", "c", "s">>

Rejected == [ok |-> FALSE, status |-> 0, json |-> FALSE, body |-> Undefined]
Response(status, body) == [ok |-> TRUE, status |-> status, json |-> TRUE, body |-> body]
BadGateway == [ok |-> TRUE, status |-> 502, json |-> FALSE, body |-> Undefined]

\* a user object, and the error object of a non-success answer
UserBody(followers, public_repos) ==
    [followers |-> Num(followers), public_repos |-> Num(public_repos), message |-> Undefined]
ErrorBody(text) ==
    [followers |-> Undefined, public_repos |-> Undefined, message |-> Str(text)]

ProfileOutcomes ==
    {Response(200, UserBody(45, 12)), Response(200, UserBody(1000, 3)),
     Response(404, ErrorBody(NotFoundText)), Response(401, ErrorBody(ForbiddenText)),
     Response(403, ErrorBody(ForbiddenText)), BadGateway, Rejected}

Alpha == [name |-> "alpha", fork |-> FALSE, size |-> 100, description |-> Null]
Beta == [name |-> "beta", fork |-> TRUE, size |-> 500, description |-> Str(<<"l", "i", "b">>)]
Gamma == [name |-> "gamma", fork |-> FALSE, size |-> 99, description |-> Str(<<>>)]
Delta ==
    [name |-> "delta", fork |-> FALSE, size |-> 300,
     description |-> Str(<<"A", " ", "T", "e", "m", "p", "L", "A", "T", "E", "!">>)]
Epsilon ==
    [name |-> "epsilon", fork |-> FALSE, size |-> 2000,
     description |-> Str(<<"a", "p", "p">>)]

Repos == {Alpha, Beta, Gamma, Delta, Epsilon}

\* a page that holds every repository
FullPage == <<Epsilon, Beta, Alpha, Gamma, Delta>>

\* the repository lists of at most MaxRepos distinct repositories, in every
\* order, and the full page
RepoLists ==
    {l \in UNION {[1..n -> Repos] : n \in 0..MaxRepos} :
        \A i, j \in 1..Len(l) : i # j => l[i] # l[j]}
        \cup {FullPage}

ArrayBody(items) == [isArray |-> TRUE, items |-> items, message |-> Undefined]
ObjectBody(text) == [isArray |-> FALSE, items |-> <<>>, message |-> Str(text)]

ReposOutcomes ==
    {Response(200, ArrayBody(l)) : l \in RepoLists}
        \cup {Response(403, ObjectBody(ForbiddenText)), BadGateway, Rejected}

JS == <<"J", "S">>
Py == <<"P", "y">>
Go == <<"G", "o">>

Bytes(lang, n) == [key |-> lang, val |-> Num(n)]

\* the byte map of each repository
LanguagesOf(name) ==
    CASE name = "alpha" -> <<Bytes(JS, 10), Bytes(Py, 5)>>
      [] name = "beta" -> <<Bytes(Py, 7)>>
      [] name = "gamma" -> <<>>
      [] name = "delta" -> <<Bytes(Go, 3), Bytes(JS, 1)>>
      [] OTHER -> <<Bytes(Py, 2), Bytes(JS, 4)>>

\* the error object of the languages endpoint
LanguagesError ==
    <<[key |-> <<"m", "e", "s", "s", "a", "g", "e">>, val |-> Str(NotFoundText)],
      [key |-> <<"d", "o", "c", "u", "m", "e", "n", "t", "a", "t", "i", "o", "n", "_",
                 "u", "r", "l">>,
       val |-> Str(DocUrlText)]>>

LanguagesOutcomes(name) ==
    {Response(200, LanguagesOf(name)), Response(404, LanguagesError), BadGateway, Rejected}

\* a few short pages, for the runs in which the upstream answers a short page
ShortPages == {<<>>, <<Alpha>>, <<Beta, Epsilon>>, <<Epsilon, Alpha>>}

\* the pages of an upstream that is up, for the runs with two requests
SteadyPages == {<<Alpha, Epsilon>>, <<Delta, Alpha>>, <<Beta, Epsilon>>}

\* What the three endpoints answer in a run: anything ("any"), anything with
\* the repository list one of the short pages ("short"), or the answers of an
\* upstream that is up ("steady": a profile or a rate-limit body, a steady
\* page, and per repository its languages, an error body or a network error).
ProfileOutcomesOf(mode) ==
    IF mode = "steady"
    THEN {Response(200, UserBody(45, 12)), Response(403, ErrorBody(ForbiddenText))}
    ELSE ProfileOutcomes

ReposOutcomesOf(mode) ==
    IF mode = "short"
    THEN {Response(200, ArrayBody(l)) : l \in ShortPages}
            \cup {Response(403, ObjectBody(ForbiddenText)), BadGateway, Rejected}
    ELSE IF mode = "steady"
    THEN {Response(200, ArrayBody(l)) : l \in SteadyPages}
    ELSE ReposOutcomes

LanguagesOutcomesOf(mode, name) ==
    IF mode = "steady"
    THEN {Response(200, LanguagesOf(name)), Response(404, LanguagesError), Rejected}
    ELSE LanguagesOutcomes(name)

\* process.env.GITHUB_TOKEN
Tokens == {Undefined, Str(<<>>), Str(<<"g", "h", "p">>)}

\* req.query.filter
FilterParams ==
    {Undefined, Str(<<"t", "r", "u", "e">>), Str(<<"f", "a", "l", "s", "e">>),
     Str(<<"T", "R", "U", "E">>)}

\* the filter parameters the requests of a run carry
FilterParamsOf(mode) ==
    IF mode = "steady"
    THEN {Undefined, Str(<<"t", "r", "u", "e">>)}
    ELSE FilterParams

(***************************************************************************)
(* The state.  GITHUB_TOKEN is the constant of the process; every other    *)
(* variable holds, per request, a local of the handler (Undefined before   *)
(* its assignment), the position of the handler and of its language        *)
(* callbacks, and the record of what went over the network.                *)
(***************************************************************************)
VARIABLES
    GITHUB_TOKEN,   \* process.env.GITHUB_TOKEN
    upstream,       \* which answers the upstream API gives in this run
    pc,             \* where the handler of the request is suspended
    query,          \* req.query.filter
    shouldFilter,
    r,              \* the response of the profile fetch
    profile,
    rep,            \* the response of the repository-list fetch
    fetchedRepos,
    finalRepos,
    langTotals,
    lpc,            \* per element of finalRepos: where its callback is suspended
    lg,             \* per element of finalRepos: the response of its language fetch
    calls,          \* the upstream calls the request has issued, in order
    sent,           \* the responses given to the caller, in order
    scoreIn,        \* SpecScore: the arguments given to the score calculator
    scoreOut,       \* SpecScore: its result
    prevIn,         \* SpecScore: the arguments of the call before
    prevOut,        \* SpecScore: the result of the call before
    username,       \* the frontend: the text of the input
    result,         \* the frontend: what the results panel shows
    loading,
    showFilteredRepos,
    gets,           \* the frontend: the axios.get calls of analyze, as issued
    compareUsername1,
    compareUsername2,
    compareResult1,
    compareResult2,
    isComparing,
    compares        \* the frontend: the calls of compareProfiles that are suspended,
                    \* as issued, and the last one that ended

reqVars ==
    <<pc, query, shouldFilter, r, profile, rep, fetchedRepos, finalRepos, langTotals,
      lpc, lg, calls, sent>>
scoreVars == <<scoreIn, scoreOut, prevIn, prevOut>>
envVars == <<GITHUB_TOKEN, upstream>>
compareVars ==
    <<compareUsername1, compareUsername2, compareResult1, compareResult2, isComparing,
      compares>>

uiVars == <<username, result, loading, showFilteredRepos, gets, compareVars>>

vars == <<envVars, reqVars, scoreVars, uiVars>>

Call(kind, repo) == [kind |-> kind, repo |-> repo]

\* res.status(status).json({ error: text })
ErrorResponse(status, text) == [status |-> status, body |-> [error |-> text]]

TokenMissingResponse ==
    ErrorResponse(500, "Server configuration error: GitHub token missing.")
UserNotFoundResponse == ErrorResponse(404, "User not found")
TokenInvalidResponse == ErrorResponse(401, "GitHub Token is invalid or expired.")

\* the catch block of the handler
CatchResponse(message) == ErrorResponse(500, "Internal Server Error: " \o message)

\* ProfileStatusResponse without the check for 401
ProfileStatusResponse_No401(response) ==
    IF response.status = 404 THEN UserNotFoundResponse ELSE Undefined

\* the status checks on the profile response: the response they send, or
\* Undefined when the handler goes on
ProfileStatusResponse(response) ==
    IF response.status = 404 THEN UserNotFoundResponse
    ELSE IF response.status = 401 THEN TokenInvalidResponse
    ELSE Undefined

\* finalRepos.map(async (repo) => ...): the fetches the callbacks issue
LanguageCalls(repos) == [i \in 1..Len(repos) |-> Call("languages", repos[i].name)]

\* BuildResult with the filter applied to the list that is reported only
BuildResult_FilterShownOnly(prof, repos, totals) ==
    LET hireabilityScore == calculateHireabilityScore(prof, repos, totals)
        aiReview == generateAIReview(prof, totals, hireabilityScore)
    IN  AnalysisResult(prof, filterLowValueRepos(repos), totals, hireabilityScore, aiReview)

\* steps 5 to 7 of the handler: the object given to res.json
BuildResult(prof, repos, totals) ==
    LET hireabilityScore == calculateHireabilityScore(prof, repos, totals)
        aiReview == generateAIReview(prof, totals, hireabilityScore)
    IN  AnalysisResult(prof, repos, totals, hireabilityScore, aiReview)

\* useState(''), useState(null), useState(false), useState(true); no call yet
InitUI ==
    /\ username = ""
    /\ result = Null
    /\ loading = FALSE
    /\ showFilteredRepos = TRUE
    /\ gets = <<>>
    /\ compareUsername1 = ""
    /\ compareUsername2 = ""
    /\ compareResult1 = Null
    /\ compareResult2 = Null
    /\ isComparing = FALSE
    /\ compares = <<>>

InitRequests(active) ==
    /\ pc = [q \in Requests |-> IF q \in active THEN "idle" ELSE "off"]
    /\ query = [q \in Requests |-> Undefined]
    /\ shouldFilter = [q \in Requests |-> FALSE]
    /\ r = [q \in Requests |-> Undefined]
    /\ profile = [q \in Requests |-> Undefined]
    /\ rep = [q \in Requests |-> Undefined]
    /\ fetchedRepos = [q \in Requests |-> Undefined]
    /\ finalRepos = [q \in Requests |-> Undefined]
    /\ langTotals = [q \in Requests |-> Undefined]
    /\ lpc = [q \in Requests |-> <<>>]
    /\ lg = [q \in Requests |-> <<>>]
    /\ calls = [q \in Requests |-> <<>>]
    /\ sent = [q \in Requests |-> <<>>]

Init ==
    /\ GITHUB_TOKEN \in Tokens
    /\ upstream = "any"
    /\ InitRequests({1})
    /\ InitUI
    /\ scoreIn = Undefined
    /\ scoreOut = Undefined
    /\ prevIn = Undefined
    /\ prevOut = Undefined

\* Finish without the return: the response is sent and the handler stays
\* where it is
Finish_NoReturn(q, response) ==
    /\ sent' = [sent EXCEPT ![q] = Append(@, response)]
    /\ pc' = pc

\* const langTotals = {} is a local of the handler: each request has its own
Accumulator_Shared(q) == 1

Accumulator(q) == q

\* the handler ends: it sends the response and returns
Finish(q, response) ==
    /\ sent' = [sent EXCEPT ![q] = Append(@, response)]
    /\ pc' = [pc EXCEPT ![q] = "done"]

\* the upstream calls the handler issues before its first await
CallsAtStart_Eager == <<Call("profile", ""), Call("repos", "")>>

CallsAtStart == <<Call("profile", "")>>

\* The request arrives: the handler runs to its first await.
HandleRequest(q) ==
    /\ pc[q] = "idle"
    /\ \E filter \in FilterParamsOf(upstream) :
        /\ query' = [query EXCEPT ![q] = filter]
        /\ shouldFilter' = [shouldFilter EXCEPT ![q] = ShouldFilter(filter)]
    /\ IF TokenMissing(GITHUB_TOKEN)
       THEN /\ Finish(q, TokenMissingResponse)
            /\ UNCHANGED calls
       ELSE /\ calls' = [calls EXCEPT ![q] = @ \o CallsAtStart]
            /\ pc' = [pc EXCEPT ![q] = "awaitProfile"]
            /\ UNCHANGED sent
    /\ UNCHANGED <<envVars, r, profile, rep, fetchedRepos, finalRepos, langTotals,
                   lpc, lg, scoreVars, uiVars>>

\* The profile fetch settles: the status checks.
ProfileResponse(q) ==
    /\ pc[q] = "awaitProfile"
    /\ \E outcome \in ProfileOutcomesOf(upstream) :
        IF ~outcome.ok
        THEN /\ Finish(q, CatchResponse("fetch failed"))
             /\ UNCHANGED r
        ELSE /\ r' = [r EXCEPT ![q] = outcome]
             /\ IF ProfileStatusResponse(outcome) # Undefined
                THEN Finish(q, ProfileStatusResponse(outcome))
                ELSE /\ pc' = [pc EXCEPT ![q] = "awaitProfileJson"]
                     /\ UNCHANGED sent
    /\ UNCHANGED <<envVars, query, shouldFilter, profile, rep, fetchedRepos,
                   finalRepos, langTotals, lpc, lg, calls, scoreVars, uiVars>>

\* r.json() settles: the repository-list fetch is issued.
ProfileJson(q) ==
    /\ pc[q] = "awaitProfileJson"
    /\ IF ~r[q].json
       THEN /\ Finish(q, CatchResponse("invalid json"))
            /\ UNCHANGED <<profile, calls>>
       ELSE /\ profile' = [profile EXCEPT ![q] = r[q].body]
            /\ calls' = [calls EXCEPT ![q] = Append(@, Call("repos", ""))]
            /\ pc' = [pc EXCEPT ![q] = "awaitRepos"]
            /\ UNCHANGED sent
    /\ UNCHANGED <<envVars, query, shouldFilter, r, rep, fetchedRepos, finalRepos,
                   langTotals, lpc, lg, scoreVars, uiVars>>

\* The repository-list fetch settles.
ReposResponse(q) ==
    /\ pc[q] = "awaitRepos"
    /\ \E outcome \in ReposOutcomesOf(upstream) :
        IF ~outcome.ok
        THEN /\ Finish(q, CatchResponse("fetch failed"))
             /\ UNCHANGED rep
        ELSE /\ rep' = [rep EXCEPT ![q] = outcome]
             /\ pc' = [pc EXCEPT ![q] = "awaitReposJson"]
             /\ UNCHANGED sent
    /\ UNCHANGED <<envVars, query, shouldFilter, r, profile, fetchedRepos,
                   finalRepos, langTotals, lpc, lg, calls, scoreVars, uiVars>>

\* rep.json() settles: the filter, then every language callback runs to its
\* fetch, and the handler waits on Promise.all.
ReposJson(q) ==
    /\ pc[q] = "awaitReposJson"
    /\ IF ~rep[q].json
       THEN /\ Finish(q, CatchResponse("invalid json"))
            /\ UNCHANGED <<fetchedRepos, finalRepos, langTotals, lpc, lg, calls>>
       ELSE LET final == EffectiveRepos(rep[q].body, shouldFilter[q])
            IN  /\ fetchedRepos' = [fetchedRepos EXCEPT ![q] = rep[q].body]
                /\ finalRepos' = [finalRepos EXCEPT ![q] = final]
                /\ langTotals' = [langTotals EXCEPT ![Accumulator(q)] = <<>>]
                /\ calls' = [calls EXCEPT ![q] = @ \o LanguageCalls(final)]
                /\ lpc' = [lpc EXCEPT ![q] = [i \in 1..Len(final) |-> "awaitFetch"]]
                /\ lg' = [lg EXCEPT ![q] = [i \in 1..Len(final) |-> Undefined]]
                /\ pc' = [pc EXCEPT ![q] = "awaitLangs"]
                /\ UNCHANGED sent
    /\ UNCHANGED <<envVars, query, shouldFilter, r, profile, rep, scoreVars, uiVars>>

\* The language fetch of finalRepos[i] settles; a rejection is caught.
LangResponse(q, i) ==
    /\ pc[q] = "awaitLangs"
    /\ i \in 1..Len(lpc[q])
    /\ lpc[q][i] = "awaitFetch"
    /\ \E outcome \in LanguagesOutcomesOf(upstream, finalRepos[q][i].name) :
        IF ~outcome.ok
        THEN /\ lpc' = [lpc EXCEPT ![q][i] = "settled"]
             /\ UNCHANGED lg
        ELSE /\ lg' = [lg EXCEPT ![q][i] = outcome]
             /\ lpc' = [lpc EXCEPT ![q][i] = "awaitJson"]
    /\ UNCHANGED <<envVars, pc, query, shouldFilter, r, profile, rep, fetchedRepos,
                   finalRepos, langTotals, calls, sent, scoreVars, uiVars>>

\* lg.json() of finalRepos[i] settles: its entries are added to langTotals; a
\* body that does not parse is caught.
LangJson(q, i) ==
    /\ pc[q] = "awaitLangs"
    /\ i \in 1..Len(lpc[q])
    /\ lpc[q][i] = "awaitJson"
    /\ IF ~lg[q][i].json
       THEN UNCHANGED langTotals
       ELSE langTotals' = [langTotals EXCEPT ![Accumulator(q)] =
                                    MergeLanguages(@, lg[q][i].body)]
    /\ lpc' = [lpc EXCEPT ![q][i] = "settled"]
    /\ UNCHANGED <<envVars, pc, query, shouldFilter, r, profile, rep, fetchedRepos,
                   finalRepos, lg, calls, sent, scoreVars, uiVars>>

\* Promise.all over callbacks that catch: resolved when each has settled
AllSettled_Any(states) ==
    states = <<>> \/ \E i \in 1..Len(states) : states[i] = "settled"

AllSettled(states) == \A i \in 1..Len(states) : states[i] = "settled"

\* Promise.all resolves: score, review, response.
Join(q) ==
    /\ pc[q] = "awaitLangs"
    /\ AllSettled(lpc[q])
    /\ Finish(q, [status |-> 200,
                  body |-> BuildResult(profile[q], finalRepos[q],
                                       langTotals[Accumulator(q)])])
    /\ UNCHANGED <<envVars, query, shouldFilter, r, profile, rep, fetchedRepos,
                   finalRepos, langTotals, lpc, lg, calls, scoreVars, uiVars>>

Next ==
    \E q \in Requests :
        \/ HandleRequest(q)
        \/ ProfileResponse(q)
        \/ ProfileJson(q)
        \/ ReposResponse(q)
        \/ ReposJson(q)
        \/ \E i \in 1..Len(lpc[q]) : LangResponse(q, i)
        \/ \E i \in 1..Len(lpc[q]) : LangJson(q, i)
        \/ Join(q)

Spec == Init /\ [][Next]_vars

(***************************************************************************)
(* SpecLive: the handler under the scheduling of Node.js, with an upstream *)
(* that answers short pages.  Every upstream call that was issued settles, *)
(* and the event loop runs every continuation that is ready; nothing makes *)
(* a request arrive.                                                       *)
(***************************************************************************)
InitLive ==
    /\ GITHUB_TOKEN \in Tokens
    /\ upstream = "short"
    /\ InitRequests({1})
    /\ InitUI
    /\ scoreIn = Undefined
    /\ scoreOut = Undefined
    /\ prevIn = Undefined
    /\ prevOut = Undefined

Fairness ==
    \A q \in Requests :
        /\ WF_vars(ProfileResponse(q))
        /\ WF_vars(ProfileJson(q))
        /\ WF_vars(ReposResponse(q))
        /\ WF_vars(ReposJson(q))
        /\ WF_vars(\E i \in 1..Len(lpc[q]) : LangResponse(q, i))
        /\ WF_vars(\E i \in 1..Len(lpc[q]) : LangJson(q, i))
        /\ WF_vars(Join(q))

SpecLive == InitLive /\ [][Next]_vars /\ Fairness

(***************************************************************************)
(* SpecConc: two requests in flight at once against an upstream that is    *)
(* up; their handlers' turns interleave in every order.                    *)
(***************************************************************************)
InitConc ==
    /\ GITHUB_TOKEN = Str(<<"g", "h", "p">>)
    /\ upstream = "steady"
    /\ InitRequests({1, 2})
    /\ InitUI
    /\ scoreIn = Undefined
    /\ scoreOut = Undefined
    /\ prevIn = Undefined
    /\ prevOut = Undefined

SpecConc == InitConc /\ [][Next]_vars

(***************************************************************************)
(* SpecScore: the score calculator applied to every follower count,        *)
(* repository count and language count within the bounds.                  *)
(***************************************************************************)
\* a repository list of n repositories and language totals of k languages
ReposOfLength(n) ==
    [i \in 1..n |-> [name |-> "repo", fork |-> FALSE, size |-> minLinesOfCode,
                     description |-> Null]]
TotalsOfSize(k) == [i \in 1..k |-> Bytes(<<"L">> \o NatToChars(i), i)]

InitScore ==
    /\ GITHUB_TOKEN = Str(<<"g", "h", "p">>)
    /\ upstream = "any"
    /\ InitRequests({})
    /\ InitUI
    /\ scoreIn = Undefined
    /\ scoreOut = Undefined
    /\ prevIn = Undefined
    /\ prevOut = Undefined

\* the score of followers f, n repositories and k languages
ScoreOf(f, n, k) ==
    calculateHireabilityScore(UserBody(f, n), ReposOfLength(n), TotalsOfSize(k))

Calculate ==
    /\ scoreIn = Undefined
    /\ \E f \in 0..MaxFollowers, n \in 0..MaxRepoCount, k \in 0..MaxLangCount :
        /\ scoreIn' = [followers |-> f, repoCount |-> n, languageCount |-> k]
        /\ scoreOut' = ScoreOf(f, n, k)
    /\ UNCHANGED <<envVars, reqVars, prevIn, prevOut, uiVars>>

\* A second call, with one of the three inputs raised by one.
Raise ==
    /\ scoreIn # Undefined
    /\ prevIn = Undefined
    /\ \E df, dn, dk \in 0..1 :
        /\ df + dn + dk = 1
        /\ scoreIn.followers + df <= MaxFollowers
        /\ scoreIn.repoCount + dn <= MaxRepoCount
        /\ scoreIn.languageCount + dk <= MaxLangCount
        /\ scoreIn' = [followers |-> scoreIn.followers + df,
                       repoCount |-> scoreIn.repoCount + dn,
                       languageCount |-> scoreIn.languageCount + dk]
        /\ scoreOut' = ScoreOf(scoreIn.followers + df, scoreIn.repoCount + dn,
                               scoreIn.languageCount + dk)
    /\ prevIn' = scoreIn
    /\ prevOut' = scoreOut
    /\ UNCHANGED <<envVars, reqVars, uiVars>>

NextScore == Calculate \/ Raise

SpecScore == InitScore /\ [][NextScore]_vars

(***************************************************************************)
(* The frontend (App.js): the analyzer page.  analyze() runs to its        *)
(* axios.get and is resumed when the call settles; the click on Search and *)
(* the Enter key in the input both call it.  The answer of the backend to  *)
(* a call is abstracted to the data it holds for the requested user and    *)
(* filter, or to an error.                                                 *)
(***************************************************************************)
MaxAnalyzeCalls == 2

Usernames == {"", "octo", "linus"}

\* res.data of the call for a user and a filter flag
AnalysisData(name, filter) == [username |-> name, filter |-> filter]

Resolved(data) == [ok |-> TRUE, data |-> data, response |-> Undefined, message |-> Undefined]

\* the error axios.get rejects with: err.response (absent when no answer
\* came) and err.message
RejectedWith(response, message) ==
    [ok |-> FALSE, data |-> Undefined, response |-> response, message |-> message]

UserNotFoundText == <<"U", "s", "e", "r", " ", "n", "o", "t", " ", "f", "o", "u", "n", "d">>
NetworkErrorText == <<"N", "e", "t", "w", "o", "r", "k", " ", "E", "r", "r", "o", "r">>
StatusCodeText == <<"R", "e", "q", "u", "e", "s", "t", " ", "f", "a", "i", "l", "e", "d", " ", "w", "i", "t", "h", " ", "s", "t", "a", "t", "u", "s", " ", "c", "o", "d", "e", " ", "4", "0", "4">>
UnknownErrorText == <<"A", "n", " ", "u", "n", "k", "n", "o", "w", "n", " ", "e", "r", "r", "o", "r", " ", "o", "c", "c", "u", "r", "r", "e", "d", ".">>

AxiosOutcomes(get) ==
    {Resolved(AnalysisData(get.username, get.filter)),
     RejectedWith([data |-> [error |-> Str(UserNotFoundText)]], Str(StatusCodeText)),
     RejectedWith([data |-> [error |-> Undefined]], Str(StatusCodeText)),
     RejectedWith(Undefined, Str(NetworkErrorText)),
     RejectedWith(Undefined, Str(<<>>))}

\* err.response?.data?.error || err.message || 'An unknown error occurred.'
ErrorOf(err) ==
    JsOr(JsOr(IF err.response = Undefined THEN Undefined ELSE err.response.data.error,
              err.message),
         Str(UnknownErrorText))

InitFrontend ==
    /\ GITHUB_TOKEN = Str(<<"g", "h", "p">>)
    /\ upstream = "any"
    /\ InitRequests({})
    /\ InitUI
    /\ scoreIn = Undefined
    /\ scoreOut = Undefined
    /\ prevIn = Undefined
    /\ prevOut = Undefined

\* onChange of the input
SetUsername ==
    /\ \E name \in Usernames : username' = name
    /\ UNCHANGED <<envVars, reqVars, scoreVars, compareVars, result, loading,
                   showFilteredRepos, gets>>

\* onChange of the filter checkbox
ToggleFilter ==
    /\ showFilteredRepos' = ~showFilteredRepos
    /\ UNCHANGED <<envVars, reqVars, scoreVars, compareVars, username, result, loading, gets>>

\* analyze() up to its await
analyze ==
    IF username = ""
    THEN UNCHANGED <<result, loading, gets>>
    ELSE /\ loading' = TRUE
         /\ result' = Null
         /\ gets' = Append(gets, [username |-> username, filter |-> showFilteredRepos,
                                  settled |-> FALSE, outcome |-> Undefined])

\* onClick of the Search button, which is disabled while loading
ClickSearch ==
    /\ ~loading
    /\ Len(gets) < MaxAnalyzeCalls
    /\ analyze
    /\ UNCHANGED <<envVars, reqVars, scoreVars, compareVars, username, showFilteredRepos>>

\* onKeyPress of the input with the Enter key
PressEnter ==
    /\ Len(gets) < MaxAnalyzeCalls
    /\ analyze
    /\ UNCHANGED <<envVars, reqVars, scoreVars, compareVars, username, showFilteredRepos>>

\* the axios.get of the k-th call settles: try / catch / finally
GetSettles(k) ==
    /\ k \in 1..Len(gets)
    /\ ~gets[k].settled
    /\ \E outcome \in AxiosOutcomes(gets[k]) :
        /\ result' = IF outcome.ok THEN outcome.data ELSE [error |-> ErrorOf(outcome)]
        /\ gets' = [gets EXCEPT ![k] = [@ EXCEPT !.settled = TRUE, !.outcome = outcome]]
    /\ loading' = FALSE
    /\ UNCHANGED <<envVars, reqVars, scoreVars, compareVars, username, showFilteredRepos>>

NextFrontend ==
    \/ SetUsername
    \/ ToggleFilter
    \/ ClickSearch
    \/ PressEnter
    \/ \E k \in 1..Len(gets) : GetSettles(k)

SpecFrontend == InitFrontend /\ [][NextFrontend]_vars

(***************************************************************************)
(* The frontend (App.js): the comparison page.  compareProfiles() starts   *)
(* fetchUserData for both users and is resumed by Promise.all when both    *)
(* have returned.  The two inputs and the Compare button are disabled      *)
(* while isComparing; the filter checkbox of the analyzer page is not.     *)
(***************************************************************************)
MaxCompareCalls == 2

\* fetchUserData whose catch block returns nothing
fetchUserData_NoReturnInCatch(outcome) ==
    IF outcome.ok THEN outcome.data ELSE Undefined

\* what fetchUserData returns when its axios.get has settled:
\* res.data, or { error: err.response?.data?.error || err.message }
fetchUserData(outcome) ==
    IF outcome.ok THEN outcome.data
    ELSE [error |-> JsOr(IF outcome.response = Undefined THEN Undefined
                         ELSE outcome.response.data.error,
                         outcome.message)]

\* a call of fetchUserData suspended at its axios.get
Fetch(name, filter) ==
    [username |-> name, filter |-> filter, settled |-> FALSE, outcome |-> Undefined,
     data |-> Undefined]

\* onChange of the first input
SetCompareUsername1 ==
    /\ ~isComparing
    /\ \E name \in Usernames : compareUsername1' = name
    /\ UNCHANGED <<envVars, reqVars, scoreVars, username, result, loading,
                   showFilteredRepos, gets, compareUsername2, compareResult1,
                   compareResult2, isComparing, compares>>

\* onChange of the second input
SetCompareUsername2 ==
    /\ ~isComparing
    /\ \E name \in Usernames : compareUsername2' = name
    /\ UNCHANGED <<envVars, reqVars, scoreVars, username, result, loading,
                   showFilteredRepos, gets, compareUsername1, compareResult1,
                   compareResult2, isComparing, compares>>

\* the call is suspended at its await
Suspended(call) == ~call.resumed

\* compareProfiles() up to its await; a call that ended before is gone
compareProfiles ==
    IF compareUsername1 = "" \/ compareUsername2 = ""
    THEN UNCHANGED <<compareResult1, compareResult2, isComparing, compares>>
    ELSE /\ isComparing' = TRUE
         /\ compareResult1' = Null
         /\ compareResult2' = Null
         /\ compares' = Append(SelectSeq(compares, Suspended),
                               [fetches |-> <<Fetch(compareUsername1, showFilteredRepos),
                                              Fetch(compareUsername2, showFilteredRepos)>>,
                                resumed |-> FALSE])

\* onClick of the Compare button
ClickCompare ==
    /\ ~(isComparing \/ compareUsername1 = "" \/ compareUsername2 = "")
    /\ Len(SelectSeq(compares, Suspended)) < MaxCompareCalls
    /\ compareProfiles
    /\ UNCHANGED <<envVars, reqVars, scoreVars, username, result, loading,
                   showFilteredRepos, gets, compareUsername1, compareUsername2>>

\* onKeyPress of the second input with the Enter key
PressEnterCompare ==
    /\ ~isComparing
    /\ Len(SelectSeq(compares, Suspended)) < MaxCompareCalls
    /\ compareProfiles
    /\ UNCHANGED <<envVars, reqVars, scoreVars, username, result, loading,
                   showFilteredRepos, gets, compareUsername1, compareUsername2>>

\* the axios.get of fetchUserData number i of the c-th call settles
FetchUserDataSettles(c, i) ==
    /\ c \in 1..Len(compares)
    /\ i \in 1..2
    /\ ~compares[c].fetches[i].settled
    /\ \E outcome \in AxiosOutcomes(compares[c].fetches[i]) :
        compares' = [compares EXCEPT ![c].fetches[i] =
                        [@ EXCEPT !.settled = TRUE, !.outcome = outcome,
                                  !.data = fetchUserData(outcome)]]
    /\ UNCHANGED <<envVars, reqVars, scoreVars, username, result, loading,
                   showFilteredRepos, gets, compareUsername1, compareUsername2,
                   compareResult1, compareResult2, isComparing>>

\* Promise.all resolves: the rest of the c-th call
PromiseAllResolves(c) ==
    /\ c \in 1..Len(compares)
    /\ ~compares[c].resumed
    /\ compares[c].fetches[1].settled
    /\ compares[c].fetches[2].settled
    /\ compareResult1' = compares[c].fetches[1].data
    /\ compareResult2' = compares[c].fetches[2].data
    /\ isComparing' = FALSE
    /\ compares' = [compares EXCEPT ![c].resumed = TRUE]
    /\ UNCHANGED <<envVars, reqVars, scoreVars, username, result, loading,
                   showFilteredRepos, gets, compareUsername1, compareUsername2>>

NextCompare ==
    \/ SetCompareUsername1
    \/ SetCompareUsername2
    \/ ToggleFilter
    \/ ClickCompare
    \/ PressEnterCompare
    \/ \E c \in 1..Len(compares) : \E i \in 1..2 : FetchUserDataSettles(c, i)
    \/ \E c \in 1..Len(compares) : PromiseAllResolves(c)

\* the continuation of a resolved Promise.all runs
SpecCompare ==
    /\ InitFrontend
    /\ [][NextCompare]_vars
    /\ WF_vars(\E c \in 1..Len(compares) : PromiseAllResolves(c))

(***************************************************************************)
(* Vocabulary of the properties, written from the specification and not    *)
(* with the operators that model the code.                                 *)
(***************************************************************************)
Elems(seq) == {seq[i] : i \in 1..Len(seq)}

Pos(seq, x) == CHOOSE i \in 1..Len(seq) : seq[i] = x

Min(a, b) == IF a <= b THEN a ELSE b
Max(a, b) == IF a >= b THEN a ELSE b

TrueText == <<"t", "r", "u", "e">>

\* the bodies of the 200 responses the request was given
Results(q) == {sent[q][i].body : i \in {j \in 1..Len(sent[q]) : sent[q][j].status = 200}}

\* the repository list the upstream answered with, empty when it answered
\* with something that is no list
UpstreamList(q) == IF rep[q].body.isArray THEN rep[q].body.items ELSE <<>>

TemplateUpper == <<"T", "E", "M", "P", "L", "A", "T", "E">>

\* the text holds "template" in some letter case
MentionsTemplate(cs) ==
    \E i \in 1..(Len(cs) - 7) :
        \A j \in 1..8 : cs[i + j - 1] \in {Template[j], TemplateUpper[j]}

\* the repositories the filter is to remove
LowValue(repo) ==
    \/ repo.fork
    \/ repo.size < 100
    \/ repo.description.t = "str" /\ MentionsTemplate(repo.description.s)

IsLanguageCall(c) == c.kind = "languages"

\* the repository names of the language fetches the request issued, in order
LanguageCallNames(q) ==
    LET issued == SelectSeq(calls[q], IsLanguageCall)
    IN  [i \in 1..Len(issued) |-> issued[i].repo]

Names(repos) == [i \in 1..Len(repos) |-> repos[i].name]

\* the language fetch of finalRepos[i] was answered with a byte map
Succeeded(q, i) ==
    /\ lg[q][i] # Undefined
    /\ lg[q][i].status \in 200..299
    /\ lg[q][i].json

BytesIn(entries, lang) == IF HasKey(entries, lang) THEN Get(entries, lang).n ELSE 0

RECURSIVE SumOver(_, _, _)
SumOver(q, I, lang) ==
    IF I = {} THEN 0
    ELSE LET i == CHOOSE j \in I : TRUE
         IN  BytesIn(lg[q][i].body, lang) + SumOver(q, I \ {i}, lang)

LanguagesIn(q, I) == UNION {Elems(ObjectKeys(lg[q][i].body)) : i \in I}

\* totals is the pointwise sum of the byte maps answered for the
\* repositories of I: one entry per language of these maps, and no other
IsPointwiseSum(totals, q, I) ==
    /\ Elems(ObjectKeys(totals)) = LanguagesIn(q, I)
    /\ Len(totals) = Cardinality(LanguagesIn(q, I))
    /\ \A lang \in LanguagesIn(q, I) : Get(totals, lang) = Num(SumOver(q, I, lang))

FollowerTerm(f) == Min(30, f \div 10)
VolumeTerm(n) == Min(30, (n \div 5) * 2)
DiversityTerm(k) == Min(40, Max(0, (k - 1) * 10))

(***************************************************************************)
(* The claims.                                                             *)
(***************************************************************************)

\* C1: in every 200 response, hireabilityScore is an integer between 0 and
\* 100, whatever the profile body, the repository list and the outcomes of
\* the language fetches.
C1_ScoreInRange ==
    \A q \in Requests : \A b \in Results(q) :
        /\ b.hireabilityScore.t = "num"
        /\ 0 <= b.hireabilityScore.n
        /\ b.hireabilityScore.n <= 100

\* C2: with filter=true the repositories of the result are exactly the
\* upstream repositories that are no fork, have size >= 100 and do not
\* mention "template" in any letter case, each once and in upstream order.
C2_FilterExact ==
    \A q \in Requests : \A b \in Results(q) :
        query[q] = Str(TrueText) =>
            /\ Elems(b.repositories) = {x \in Elems(UpstreamList(q)) : ~LowValue(x)}
            /\ Len(b.repositories) = Cardinality(Elems(b.repositories))
            /\ \A i, j \in 1..Len(b.repositories) :
                i < j => Pos(UpstreamList(q), b.repositories[i])
                            < Pos(UpstreamList(q), b.repositories[j])

\* C2 witness: the full page was filtered down to its two survivors, one of
\* them without a description, in upstream order.
C2_Witness ==
    \E q \in Requests : \E b \in Results(q) :
        /\ query[q] = Str(TrueText)
        /\ UpstreamList(q) = FullPage
        /\ b.repositories = <<Epsilon, Alpha>>

\* C3: when the filter parameter is absent or is not the string "true", the
\* repositories of the result are the upstream list unchanged.
C3_NoFilterIdentity ==
    \A q \in Requests : \A b \in Results(q) :
        query[q] # Str(TrueText) => b.repositories = UpstreamList(q)

\* C3 witness: filter=TRUE (upper case) returned the full page, with its
\* fork, its small repository and its template.
C3_Witness ==
    \E q \in Requests : \E b \in Results(q) :
        /\ query[q] = Str(<<"T", "R", "U", "E">>)
        /\ b.repositories = FullPage
        /\ {Beta, Gamma, Delta} \subseteq Elems(b.repositories)

\* C4: when every language fetch was answered with a byte map, the
\* languagesByBytes of the result is the pointwise sum of these maps, in
\* every order of the list and every completion order of the fetches.
C4_PointwiseSum ==
    \A q \in Requests : \A b \in Results(q) :
        (\A i \in 1..Len(lg[q]) : Succeeded(q, i))
            => IsPointwiseSum(b.languagesByBytes, q, 1..Len(lg[q]))

\* C4 witness: two repositories that share two languages; the second one's
\* fetch completed first (its first language leads the totals).
C4_Witness ==
    \E q \in Requests : \E b \in Results(q) :
        /\ finalRepos[q] = <<Alpha, Epsilon>>
        /\ \A i \in 1..2 : Succeeded(q, i)
        /\ b.languagesByBytes = <<Bytes(Py, 7), Bytes(JS, 14)>>

\* C5: when some language fetches fail (a throw or a non-success answer), the
\* request still ends with a 200 result whose languagesByBytes is the
\* pointwise sum over the repositories whose fetch succeeded: a failed
\* repository adds nothing and creates no entry.
C5_FailedFetchAddsNothing ==
    \A q \in Requests :
        (pc[q] = "done" /\ finalRepos[q] # Undefined) =>
            /\ Results(q) # {}
            /\ \A b \in Results(q) :
                IsPointwiseSum(b.languagesByBytes, q,
                               {i \in 1..Len(lg[q]) : Succeeded(q, i)})

\* C6: an upstream 404 on the profile gives status 404 with
\* {error: "User not found"}, an upstream 401 gives status 401 with
\* {error: "GitHub Token is invalid or expired."}, and nothing else is sent.
C6_ProfileErrorResponses ==
    \A q \in Requests :
        r[q] # Undefined =>
            /\ r[q].status = 404 =>
                sent[q] = <<[status |-> 404, body |-> [error |-> "User not found"]]>>
            /\ r[q].status = 401 =>
                sent[q] = <<[status |-> 401,
                             body |-> [error |-> "GitHub Token is invalid or expired."]]>>

\* C6 witness: the profile lookup was answered with 404 and the request is over.
C6_Witness ==
    \E q \in Requests : r[q] # Undefined /\ r[q].status = 404 /\ pc[q] = "done"

\* C7: when the profile fetch is answered with any non-2xx status, the
\* request is answered with an error and issues no repository-list fetch and
\* no language fetch.
C7_ProfileFailureShortCircuits ==
    \A q \in Requests :
        (r[q] # Undefined /\ r[q].status \notin 200..299) =>
            /\ \A i \in 1..Len(calls[q]) : calls[q][i].kind = "profile"
            /\ \A i \in 1..Len(sent[q]) : sent[q][i].status >= 400

\* C8: without a configured credential every request is answered with status
\* 500 and {error: "Server configuration error: GitHub token missing."}, and
\* issues no upstream call.
C8_TokenMissing ==
    \A q \in Requests :
        GITHUB_TOKEN \in {Undefined, Str(<<>>)} =>
            /\ calls[q] = <<>>
            /\ pc[q] \notin {"idle", "off"} =>
                sent[q] = <<[status |-> 500,
                             body |-> [error |->
                                 "Server configuration error: GitHub token missing."]]>>

\* C8 witness: a request was handled while the credential is the empty string.
C8_Witness ==
    \E q \in Requests : GITHUB_TOKEN = Str(<<>>) /\ pc[q] = "done" /\ Len(sent[q]) = 1

\* C9: the repositories of a result are the list the language fetches were
\* issued over, one each and in order, and the list whose length the
\* score's volume term is computed from; with filter=true no language fetch
\* is issued for a repository the filter removes.
C9_SameEffectiveList ==
    \A q \in Requests : \A b \in Results(q) :
        /\ LanguageCallNames(q) = Names(b.repositories)
        /\ profile[q].followers.t = "num" =>
            b.hireabilityScore =
                Num(FollowerTerm(profile[q].followers.n)
                    + VolumeTerm(Len(b.repositories))
                    + DiversityTerm(Len(b.languagesByBytes)))
        /\ query[q] = Str(TrueText) =>
            \A x \in Elems(UpstreamList(q)) :
                LowValue(x) => x.name \notin Elems(LanguageCallNames(q))

\* C9 witness: the unfiltered full page: five repositories reported, five
\* language fetches, and a volume term of 2 in the score.
C9_Witness ==
    \E q \in Requests : \E b \in Results(q) :
        /\ Len(b.repositories) = 5
        /\ Len(LanguageCallNames(q)) = 5
        /\ profile[q].followers = Num(45)
        /\ b.hireabilityScore = Num(4 + 2 + DiversityTerm(Len(b.languagesByBytes)))

\* C10: for followers f, repository count n and language count k the score
\* is min(30, f div 10) + min(30, (n div 5) * 2) + min(40, max(0, (k-1)*10)),
\* the last clamp changing nothing; f=45, n=12, k=3 gives 28; k=0 and k=1
\* add nothing for diversity and k>=5 adds 40.
C10_ScoreFormula ==
    scoreIn # Undefined =>
        LET f == scoreIn.followers
            n == scoreIn.repoCount
            k == scoreIn.languageCount
        IN  /\ scoreOut = Num(FollowerTerm(f) + VolumeTerm(n) + DiversityTerm(k))
            /\ (f = 45 /\ n = 12 /\ k = 3) => scoreOut = Num(28)
            /\ k <= 1 => scoreOut = Num(Min(30, f \div 10) + Min(30, (n \div 5) * 2))
            /\ k >= 5 => scoreOut = Num(Min(30, f \div 10) + Min(30, (n \div 5) * 2) + 40)

\* C10 witness: the score of 45 followers, 12 repositories and 3 languages.
C10_Witness ==
    /\ scoreIn = [followers |-> 45, repoCount |-> 12, languageCount |-> 3]
    /\ scoreOut = Num(28)

\* C11: the score never goes down when followers, the repository count or
\* the language count is raised with the other two fixed (checked for a raise
\* by one, of which every raise is a chain), and raising the repository count
\* changes the score only when floor(count / 5) changes.
C11_ScoreMonotone ==
    prevIn # Undefined =>
        /\ prevOut.t = "num" /\ scoreOut.t = "num"
        /\ prevOut.n <= scoreOut.n
        /\ (scoreIn.repoCount # prevIn.repoCount
                /\ scoreIn.repoCount \div 5 = prevIn.repoCount \div 5)
            => scoreOut = prevOut

\* C11 witness: the fifth repository raises the score by two.
C11_Witness ==
    /\ prevIn = [followers |-> 45, repoCount |-> 4, languageCount |-> 3]
    /\ scoreIn = [followers |-> 45, repoCount |-> 5, languageCount |-> 3]
    /\ prevOut = Num(24)
    /\ scoreOut = Num(26)

\* the response is the full result with status 200, or a single error
\* string with a 4xx or 5xx status
WellFormedResponse(response) ==
    \/ /\ response.status = 200
       /\ DOMAIN response.body =
            {"profile", "repositories", "languagesByBytes", "hireabilityScore", "aiReview"}
    \/ /\ response.status \in 400..599
       /\ DOMAIN response.body = {"error"}

\* C12: a request whose upstream calls all settle is answered; every request
\* is answered at most once, when its handler ends, with the full result
\* (200) or with a single error string (4xx/5xx).
C12_ExactlyOneResponse ==
    /\ [](\A q \in Requests :
            /\ Len(sent[q]) <= 1
            /\ Len(sent[q]) = 1 <=> pc[q] = "done"
            /\ \A i \in 1..Len(sent[q]) : WellFormedResponse(sent[q][i]))
    /\ \A q \in Requests :
        (pc[q] \notin {"idle", "off"}) ~> (pc[q] = "done" /\ Len(sent[q]) = 1)

\* C12 witness: a request that went through the language fan-out was
\* answered once, with an error-free result.
C12_Witness ==
    \E q \in Requests :
        /\ pc[q] = "done"
        /\ Len(lpc[q]) = 2
        /\ Len(sent[q]) = 1
        /\ sent[q][1].status = 200

\* the locals of the handler's run for request q, and what it issued and sent
Locals(q) ==
    <<pc[q], query[q], shouldFilter[q], r[q], profile[q], rep[q], fetchedRepos[q],
      finalRepos[q], langTotals[q], lpc[q], lg[q], calls[q], sent[q]>>

\* the language fetches of the request whose body was parsed
Parsed(q) == {i \in 1..Len(lg[q]) : lg[q][i] # Undefined /\ lg[q][i].json}

\* the orders in which the fetches of I can complete
Orders(I) ==
    {o \in [1..Cardinality(I) -> I] : \A i, j \in 1..Cardinality(I) : i # j => o[i] # o[j]}

\* the totals of the request's own parsed bodies, added in the order o
RECURSIVE MergeInOrder(_, _, _)
MergeInOrder(q, o, n) ==
    IF n = 0 THEN <<>>
    ELSE MergeLanguages(MergeInOrder(q, o, n - 1), lg[q][o[n]].body)

\* the results of request q run alone on the answers it was given: one per
\* completion order of its language fetches
AloneResults(q) ==
    {BuildResult(r[q].body, EffectiveRepos(rep[q].body, ShouldFilter(query[q])),
                 MergeInOrder(q, o, Cardinality(Parsed(q)))) : o \in Orders(Parsed(q))}

\* C13: with two requests in flight and their turns interleaved in every
\* order, a turn of one request changes nothing of the other, and the result
\* of each request is a result of that request run alone on the answers the
\* upstream gave it.
C13_RequestsIndependent ==
    /\ [](\A q \in Requests : \A b \in Results(q) : b \in AloneResults(q))
    /\ [][\A q \in Requests :
            Locals(q)' # Locals(q) =>
                \A p \in Requests \ {q} : Locals(p)' = Locals(p)]_vars

\* C13 witness: two requests were in flight together and both were answered,
\* one with the filter and one without, with different, non-empty totals.
C13_Witness ==
    /\ \A q \in {1, 2} : pc[q] = "done" /\ Cardinality(Results(q)) = 1
    /\ query[1] = Str(TrueText) /\ query[2] = Undefined
    /\ rep[1].body.items = <<Delta, Alpha>> /\ rep[2].body.items = <<Alpha, Epsilon>>
    /\ Len(langTotals[1]) = 2 /\ Len(langTotals[2]) = 2
    /\ langTotals[1] # langTotals[2]

\* a language fetch of the request has not settled yet
Unsettled(q) == {i \in 1..Len(lpc[q]) : lpc[q][i] # "settled"}

\* C14: while a language fetch of a request has not settled, nothing is sent
\* to that request; a response goes out of the fan-out only in a step taken
\* with every fetch settled, and its totals are the totals of all the bodies
\* that were parsed, which no later step changes.
C14_JoinBarrier ==
    /\ [](\A q \in Requests :
            /\ Unsettled(q) # {} => sent[q] = <<>>
            /\ \A b \in Results(q) :
                /\ Unsettled(q) = {}
                /\ b.languagesByBytes = langTotals[q]
                /\ \E o \in Orders(Parsed(q)) :
                    b.languagesByBytes = MergeInOrder(q, o, Cardinality(Parsed(q))))
    /\ [][\A q \in Requests :
            /\ (pc[q] = "awaitLangs" /\ sent'[q] # sent[q]) => Unsettled(q) = {}
            /\ sent[q] # <<>> => (langTotals'[q] = langTotals[q] /\ sent'[q] = sent[q])]_vars

\* C14 witness: the result was sent after both language fetches settled and
\* holds the languages of both repositories.
C14_Witness ==
    \E q \in Requests : \E b \in Results(q) :
        /\ finalRepos[q] = <<Alpha, Delta>>
        /\ Unsettled(q) = {}
        /\ Parsed(q) = {1, 2}
        /\ Elems(ObjectKeys(b.languagesByBytes)) = {JS, Py, Go}

\* the positions in the request's upstream calls of the calls of a kind
CallsOfKind(q, kind) == {i \in 1..Len(calls[q]) : calls[q][i].kind = kind}

\* C15: the calls of a request are the profile fetch, then at most one
\* repository-list fetch, then the language fetches; the repository-list
\* fetch is issued in a step that starts with the profile response received,
\* and the language fetches in the step that starts with the repository-list
\* response received and that applies the filter, one per repository of the
\* effective list.
C15_StagedCalls ==
    /\ [](\A q \in Requests :
            /\ CallsOfKind(q, "profile") \subseteq {1}
            /\ CallsOfKind(q, "repos") \subseteq {2}
            /\ CallsOfKind(q, "repos") # {} =>
                    (r[q] # Undefined /\ r[q].ok /\ profile[q] = r[q].body)
            /\ CallsOfKind(q, "languages") # {} =>
                /\ CallsOfKind(q, "repos") = {2}
                /\ rep[q] # Undefined /\ rep[q].ok
                /\ finalRepos[q] = EffectiveRepos(rep[q].body, ShouldFilter(query[q]))
                /\ LanguageCallNames(q) = Names(finalRepos[q]))
    /\ [][\A q \in Requests :
            /\ CallsOfKind(q, "repos")' # CallsOfKind(q, "repos") =>
                    (r[q] # Undefined /\ r[q].ok /\ pc[q] = "awaitProfileJson")
            /\ CallsOfKind(q, "languages")' # CallsOfKind(q, "languages") =>
                    (rep[q] # Undefined /\ rep[q].ok /\ pc[q] = "awaitReposJson")]_vars

\* C15 witness: the filtered full page: profile, repositories, then the
\* language fetches of the two survivors.
C15_Witness ==
    \E q \in Requests :
        /\ pc[q] = "awaitLangs"
        /\ query[q] = Str(TrueText)
        /\ UpstreamList(q) = FullPage
        /\ calls[q] = <<Call("profile", ""), Call("repos", ""),
                        Call("languages", "epsilon"), Call("languages", "alpha")>>

\* C16: when the body of the repository-list response is no collection, the
\* request is answered 200 with no repositories and no languages, issues no
\* language fetch, and its score is the follower term alone.
C16_NonCollectionBody ==
    \A q \in Requests :
        (pc[q] = "done" /\ fetchedRepos[q] # Undefined /\ ~fetchedRepos[q].isArray) =>
            /\ CallsOfKind(q, "languages") = {}
            /\ Cardinality(Results(q)) = 1
            /\ \A b \in Results(q) :
                /\ b.repositories = <<>>
                /\ b.languagesByBytes = <<>>
                /\ b.hireabilityScore.t = "num"
                /\ b.profile.followers.t = "num"
                /\ b.hireabilityScore.n = FollowerTerm(b.profile.followers.n)

\* the same with a profile body that has a follower count: the score is the
\* follower term
C16_WithFollowerCount ==
    \A q \in Requests :
        (pc[q] = "done" /\ fetchedRepos[q] # Undefined /\ ~fetchedRepos[q].isArray) =>
            /\ CallsOfKind(q, "languages") = {}
            /\ Cardinality(Results(q)) = 1
            /\ \A b \in Results(q) :
                /\ b.repositories = <<>>
                /\ b.languagesByBytes = <<>>
                /\ b.profile.followers.t = "num" =>
                        b.hireabilityScore = Num(FollowerTerm(b.profile.followers.n))
                /\ b.profile.followers.t # "num" => b.hireabilityScore = Null

\* a request with a follower count was answered after a repository-list body
\* that is no collection
C16_Reached ==
    \E q \in Requests : \E b \in Results(q) :
        /\ fetchedRepos[q] # Undefined /\ ~fetchedRepos[q].isArray
        /\ b.profile.followers = Num(1000)
        /\ b.hireabilityScore = Num(30)

IsDecimal(cs) == cs # <<>> /\ \A i \in 1..Len(cs) : \E d \in 0..9 : cs[i] = Digit(d)

\* the number a decimal numeral denotes
RECURSIVE Decimal(_)
Decimal(cs) ==
    IF cs = <<>> THEN 0
    ELSE 10 * Decimal(SubSeq(cs, 1, Len(cs) - 1))
            + (CHOOSE d \in 0..9 : cs[Len(cs)] = Digit(d))

\* text names the number v in decimal, or says NaN / undefined when v is none
NamesNumber(text, v, none) ==
    IF v.t = "num" THEN IsDecimal(text) /\ Decimal(text) = v.n ELSE text = none

\* C17: the review of a result names, as focus and as expertise, the first
\* key of languagesByBytes in insertion order, whatever the byte counts, and
\* the fixed text "No main languages detected." when there is no key; it
\* names the computed score and the profile's public_repos.
C17_ReviewNamesFirstLanguage ==
    \A q \in Requests : \A b \in Results(q) :
        LET keys == ObjectKeys(b.languagesByBytes)
            named == IF keys = <<>> THEN NoMainLanguages ELSE keys[1]
        IN  /\ b.aiReview.focus = named
            /\ b.aiReview.expertise = named
            /\ NamesNumber(b.aiReview.score, b.hireabilityScore, <<"N", "a", "N">>)
            /\ NamesNumber(b.aiReview.public_repos, b.profile.public_repos,
                           <<"u", "n", "d", "e", "f", "i", "n", "e", "d">>)

\* C17 witness: the review names JS, the first key, although Py has more
\* bytes, with a score of two digits and 12 public repositories.
C17_Witness ==
    \E q \in Requests : \E b \in Results(q) :
        /\ ObjectKeys(b.languagesByBytes) = <<JS, Py>>
        /\ Get(b.languagesByBytes, JS).n < Get(b.languagesByBytes, Py).n
        /\ b.aiReview.focus = JS
        /\ b.aiReview.score = <<"1", "4">>
        /\ b.aiReview.public_repos = <<"1", "2">>

\* C17 witness of the other case: no language, the placeholder is named.
C17_PlaceholderReached ==
    \E q \in Requests : \E b \in Results(q) :
        /\ b.languagesByBytes = <<>>
        /\ b.aiReview.focus = NoMainLanguages

\* two results that are the same response: the same fields, the languages
\* compared as mappings
SameResult(a, b) ==
    /\ a.profile = b.profile
    /\ a.repositories = b.repositories
    /\ Elems(a.languagesByBytes) = Elems(b.languagesByBytes)
    /\ a.hireabilityScore = b.hireabilityScore
    /\ a.aiReview = b.aiReview

\* requests p and q carry the same filter flag and were given the same
\* answers by the upstream, repository by repository
SameAnswers(p, q) ==
    /\ pc[p] = "done" /\ pc[q] = "done"
    /\ query[p] = query[q]
    /\ r[p] = r[q]
    /\ rep[p] = rep[q]
    /\ lg[p] = lg[q]

\* C18: two requests with the same filter flag that were given the same
\* upstream answers get the same response, whatever the order in which the
\* language fetches of each completed.
C18_SameResponseInEveryOrder ==
    \A p, q \in Requests :
        SameAnswers(p, q) =>
            \A a \in Results(p) : \A b \in Results(q) : SameResult(a, b)

\* the part of C18 that holds: score, repositories, profile and the languages
\* as a mapping do not depend on the completion order
C18_SameScoreAndLanguages ==
    \A p, q \in Requests :
        SameAnswers(p, q) =>
            \A a \in Results(p) : \A b \in Results(q) :
                /\ a.profile = b.profile
                /\ a.repositories = b.repositories
                /\ Elems(a.languagesByBytes) = Elems(b.languagesByBytes)
                /\ a.hireabilityScore = b.hireabilityScore

\* the two orders of the page [alpha, epsilon]: the review names JS in one
\* response and Py in the other
C18_Reached ==
    /\ SameAnswers(1, 2)
    /\ finalRepos[1] = <<Alpha, Epsilon>>
    /\ \E a \in Results(1) : \E b \in Results(2) :
        a.aiReview.focus = JS /\ b.aiReview.focus = Py

\* request p carries filter=true and request q no filter, and the upstream
\* gave both the same profile, the same repository list and, for each
\* repository both asked about, the same language answer
SameAnswersFilterOnOff(p, q) ==
    /\ pc[p] = "done" /\ pc[q] = "done"
    /\ query[p] = Str(TrueText) /\ query[q] = Undefined
    /\ r[p] = r[q]
    /\ rep[p] = rep[q]
    /\ \A i \in 1..Len(finalRepos[p]) : \A j \in 1..Len(finalRepos[q]) :
            finalRepos[p][i].name = finalRepos[q][j].name => lg[p][i] = lg[q][j]

\* C19: on the same upstream answers, the score with filter=true is not
\* greater than the score without the filter (both are numbers or both are
\* none), and every language of the filtered result is a language of the
\* unfiltered one.
C19_FilterNeverRaisesScore ==
    \A p, q \in Requests :
        SameAnswersFilterOnOff(p, q) =>
            \A a \in Results(p) : \A b \in Results(q) :
                /\ a.hireabilityScore.t = b.hireabilityScore.t
                /\ a.hireabilityScore.t = "num" =>
                        a.hireabilityScore.n <= b.hireabilityScore.n
                /\ Elems(ObjectKeys(a.languagesByBytes))
                        \subseteq Elems(ObjectKeys(b.languagesByBytes))

\* C19 witness: the page [delta, alpha]: the filter removes delta, and with
\* it Go and ten points.
C19_Witness ==
    /\ SameAnswersFilterOnOff(1, 2)
    /\ UpstreamList(1) = <<Delta, Alpha>>
    /\ \E a \in Results(1) : \E b \in Results(2) :
        /\ a.repositories = <<Alpha>>
        /\ Elems(ObjectKeys(a.languagesByBytes)) = {JS, Py}
        /\ Elems(ObjectKeys(b.languagesByBytes)) = {JS, Py, Go}
        /\ a.hireabilityScore = Num(14)
        /\ b.hireabilityScore = Num(24)

Pending == {k \in 1..Len(gets) : ~gets[k].settled}

\* what the panel shows for a settled call: its data, or its error
ResponseOf(get) ==
    IF get.outcome.ok THEN get.outcome.data ELSE [error |-> ErrorOf(get.outcome)]

\* C20: when every analyze call has settled, the result shown is the response
\* of the call issued last; and whenever loading is false, no analyze call is
\* in flight.
C20_LatestResultShown ==
    /\ (gets # <<>> /\ Pending = {}) => result = ResponseOf(gets[Len(gets)])
    /\ ~loading => Pending = {}

\* the part of C20 that holds with the Enter key as well: a call issued while
\* none is in flight is shown when it settles, and loading is true while it
\* is the only one in flight
C20_WithoutOverlap ==
    /\ (Len(gets) = 1 /\ Pending = {}) => (result = ResponseOf(gets[1]) /\ ~loading)
    /\ (Len(gets) = 1 /\ Pending = {1}) => (loading /\ result = Null)

\* the Enter key started a second call while the first was in flight, the
\* second settled first, and the panel shows the first call's response
C20_Reached ==
    /\ Len(gets) = 2 /\ Pending = {}
    /\ gets[1].username = "octo" /\ gets[2].username = "linus"
    /\ gets[1].outcome.ok /\ gets[2].outcome.ok
    /\ result = AnalysisData("octo", TRUE)

\* v is the response of the fetch's own user: the data of that user and
\* flag, or an object with the one field error that holds the error of the
\* backend's answer, or else the message of the failure
OwnResponse(v, fetch) ==
    IF fetch.outcome.ok
    THEN v = AnalysisData(fetch.username, fetch.filter)
    ELSE /\ DOMAIN v = {"error"}
         /\ v.error = IF fetch.outcome.response # Undefined
                         /\ fetch.outcome.response.data.error # Undefined
                      THEN fetch.outcome.response.data.error
                      ELSE fetch.outcome.message

BothSettled(call) == call.fetches[1].settled /\ call.fetches[2].settled

\* C21: a call of compareProfiles is for two non-empty usernames and its two
\* requests carry the same filter flag; while it is suspended, isComparing is
\* true and neither result is set, and it is resumed only with both requests
\* settled; when it has ended, isComparing is false and each result is the
\* response of its own user, whatever the other request did; and a call whose
\* two requests have settled does end.
C21_CompareSetsBothResults ==
    /\ [](\A c \in 1..Len(compares) :
            LET call == compares[c]
            IN  /\ call.fetches[1].username # "" /\ call.fetches[2].username # ""
                /\ call.fetches[1].filter = call.fetches[2].filter
                /\ call.resumed => BothSettled(call)
                /\ ~call.resumed =>
                        (isComparing /\ compareResult1 = Null /\ compareResult2 = Null)
                /\ (call.resumed /\ c = Len(compares)) =>
                        /\ ~isComparing
                        /\ OwnResponse(compareResult1, call.fetches[1])
                        /\ OwnResponse(compareResult2, call.fetches[2]))
    /\ (\E c \in 1..Len(compares) : ~compares[c].resumed /\ BothSettled(compares[c]))
            ~> (compares # <<>> /\ compares[Len(compares)].resumed /\ ~isComparing)

\* C21 witness: the request for the first user failed and that for the
\* second succeeded; the call ended with the error of the first and the data
\* of the second, asked with the filter off.
C21_Witness ==
    /\ Len(compares) = 1 /\ compares[1].resumed /\ ~isComparing
    /\ compares[1].fetches[1].username = "octo"
    /\ compares[1].fetches[2].username = "linus"
    /\ compareResult1 = [error |-> Str(UserNotFoundText)]
    /\ compareResult2 = AnalysisData("linus", FALSE)

\* no two calls of compareProfiles are suspended at once
C21_NoOverlap == Len(SelectSeq(compares, Suspended)) <= 1

====
